---- MODULE Spec2Model ----
(***************************************************************************)
(* A model of life-rs: the two-sided growable vector SymVec, the sparse    *)
(* Board built from it, the Board iterator, and the generation stepper.    *)
(***************************************************************************)
EXTENDS Integers, Sequences, FiniteSets, TLC

VARIABLES
    v,          \* a SymVec<i32>: [vec_neg, vec_pos]
    log,        \* the push calls made on v, in call order: <<side, value>>
    board,      \* a Board: [cells : SymVec<SymVec<Cell>>, occupied : set of Coord]
    last,       \* the last Board operation: [op, col, row]
    rep,        \* TRUE iff the last operation repeated the one before it
    written,    \* the coordinates passed to born_at or kill_at so far
    born,       \* the coordinates passed to born_at so far
    nops,       \* number of Board operations made so far
    seed,       \* the live coordinates the engine's board was created with
    generation, \* the engine's generation counter
    infinite,   \* is_infinite() of the engine's board
    cur_state,  \* the UI's cur_state: a States value
    stack,      \* the UI's window stack, index 0 first
    event,      \* the event the UI dispatched last
    last_pos,   \* the Game's last_pos: the last cursor position, if any
    prev_state, \* the Game's cur_state before the last event
    panicked    \* TRUE iff the event loop ended in a panic

symVars == <<v, log>>

boardVars == <<board, last, rep, written, born, nops>>

engineVars == <<seed, generation>>

uiVars == <<infinite, cur_state, stack, event>>

gameVars == <<last_pos, prev_state, panicked>>

vars == <<symVars, boardVars, engineVars, uiVars, gameVars>>

(***************************************************************************)
(* Bounds of the model.                                                    *)
(***************************************************************************)
MaxPushes == 5      \* pushes made on the SymVec under test
MaxValue == 2       \* pushed values are 1..MaxValue
MaxIdx == 6         \* indices probed are -MaxIdx..MaxIdx
MaxOps == 2         \* born_at / kill_at calls made on the Board
MaxSeedCol == 2     \* seeds live in columns 0..MaxSeedCol
MaxSeedRow == 1     \* and rows 0..MaxSeedRow
MaxGen == 2         \* generations stepped
IsizeBits == 6      \* width of isize and usize, scaled down from 64

\* isize is a two's complement integer of IsizeBits bits.
IsizeMin == -(2 ^ (IsizeBits - 1))
IsizeMax == (2 ^ (IsizeBits - 1)) - 1

\* The number of values of an isize (and of a usize).
IsizeCount == 2 ^ IsizeBits

\* The value an isize operation leaves when overflow checks are off.
wrap(x) ==
    IF x >= IsizeMin /\ x <= IsizeMax THEN x
    ELSE ((x - IsizeMin) % IsizeCount) + IsizeMin

\* The operation overflows: a panic when overflow checks are on.
overflows(x) == x < IsizeMin \/ x > IsizeMax

\* `x as usize`.
as_usize(x) == x % IsizeCount

Values == 1..MaxValue
Indices == (-MaxIdx)..MaxIdx

(***************************************************************************)
(* SymVec (engine/src/board/vect/symvec/mod.rs).  A Vec is a sequence;     *)
(* the Vec slot k is element k + 1 of the sequence.                        *)
(***************************************************************************)
SymVec_new == [vec_neg |-> <<>>, vec_pos |-> <<>>]

push_front(sv, e) == [sv EXCEPT !.vec_pos = Append(@, e)]

push_back_pos(sv, e) == [sv EXCEPT !.vec_pos = Append(@, e)]

push_back(sv, e) == [sv EXCEPT !.vec_neg = Append(@, e)]

len_pos(sv) == Len(sv.vec_pos)

len_neg(sv) == Len(sv.vec_neg)

len(sv) == len_pos(sv) + len_neg(sv)

need_extend_pos(sv, idx) == idx >= len_pos(sv)

need_extend_neg_off(sv, idx) == wrap(-idx) >= len_neg(sv)

need_extend_neg(sv, idx) == wrap(-idx) >= len_neg(sv) + 1

is_available(sv, idx) ==
    IF idx >= 0 THEN ~need_extend_pos(sv, idx) ELSE ~need_extend_neg(sv, idx)

\* Index / IndexMut: the slot of the side's Vec that idx addresses.
abs_idx(idx) == IF idx < 0 THEN -(1 + idx) ELSE idx

\* TRUE iff v[idx] reaches one of the panic! calls.
IndexPanics(sv, idx) ==
    IF idx < 0 THEN abs_idx(idx) >= Len(sv.vec_neg)
               ELSE abs_idx(idx) >= Len(sv.vec_pos)

\* v[idx], for an idx that does not panic.
Index(sv, idx) ==
    IF idx < 0 THEN sv.vec_neg[abs_idx(idx) + 1] ELSE sv.vec_pos[abs_idx(idx) + 1]

\* v[idx] = e, for an idx that does not panic.
IndexSet(sv, idx, e) ==
    IF idx < 0 THEN [sv EXCEPT !.vec_neg[abs_idx(idx) + 1] = e]
               ELSE [sv EXCEPT !.vec_pos[abs_idx(idx) + 1] = e]

\* IntoIterator for &SymVec: the iterator is the index last yielded.
SymVec_into_iter_first(sv) == -len_neg(sv)

SymVec_into_iter(sv) == -len_neg(sv) - 1

\* SymVecIntoIterator::next, called until it returns None: the elements
\* yielded, and whether a call panicked.
RECURSIVE SymVecIterNext(_, _, _)
SymVecIterNext(sv, idx, acc) ==
    LET i == idx + 1 IN
    IF i < len_pos(sv)
    THEN IF IndexPanics(sv, i)
         THEN [items |-> acc, panicked |-> TRUE]
         ELSE SymVecIterNext(sv, i, Append(acc, Index(sv, i)))
    ELSE [items |-> acc, panicked |-> FALSE]

SymVecIterate(sv) == SymVecIterNext(sv, SymVec_into_iter(sv), <<>>)

\* Option<usize>: None, or Some(n).
None == [some |-> FALSE, val |-> 0]

Some(n) == [some |-> TRUE, val |-> n]

need_extend_pos_cnt(sv, idx) ==
    IF need_extend_pos(sv, wrap(idx - 1))
    THEN Some(as_usize(wrap(idx - len_pos(sv))))
    ELSE None

need_extend_neg_cnt(sv, idx) ==
    IF need_extend_neg(sv, idx)
    THEN Some(as_usize(wrap(-wrap(idx + len_neg(sv)))))
    ELSE None

\* The arithmetic of each method that overflows isize for idx.
need_extend_neg_overflows(sv, idx) == overflows(-idx)

is_available_overflows(sv, idx) == idx < 0 /\ need_extend_neg_overflows(sv, idx)

need_extend_pos_cnt_overflows(sv, idx) ==
    \/ overflows(idx - 1)
    \/ need_extend_pos(sv, idx - 1) /\ overflows(idx - len_pos(sv))

need_extend_neg_cnt_overflows(sv, idx) ==
    \/ need_extend_neg_overflows(sv, idx)
    \/ /\ need_extend_neg(sv, idx)
       /\ overflows(idx + len_neg(sv)) \/ overflows(-(idx + len_neg(sv)))

\* A build checks overflow (and panics on it) or wraps.
Builds == {"checked", "wrapping"}

\* What a call does in a build: it panics, or returns ret.
Outcome(build, overflowed, ret) ==
    IF build = "checked" /\ overflowed
    THEN [panic |-> TRUE, ret |-> None]
    ELSE [panic |-> FALSE, ret |-> ret]

is_available_call(build, sv, idx) ==
    Outcome(build, is_available_overflows(sv, idx),
            IF is_available(sv, idx) THEN Some(1) ELSE Some(0))

need_extend_pos_cnt_call(build, sv, idx) ==
    Outcome(build, need_extend_pos_cnt_overflows(sv, idx), need_extend_pos_cnt(sv, idx))

need_extend_neg_cnt_call(build, sv, idx) ==
    Outcome(build, need_extend_neg_cnt_overflows(sv, idx), need_extend_neg_cnt(sv, idx))

(***************************************************************************)
(* Board (src/board.rs).  A Coord is [col, row]; a Cell is "Empty" or      *)
(* "Occupied".                                                             *)
(***************************************************************************)
MinDim == 4

Empty == "Empty"

Occupied == "Occupied"

Coord(col, row) == [col |-> col, row |-> row]

max(a, b) == IF a >= b THEN a ELSE b

\* for _ in 0..n { sv.push_front(e) }
RECURSIVE push_front_n(_, _, _)
push_front_n(sv, e, n) ==
    IF n = 0 THEN sv ELSE push_front_n(push_front(sv, e), e, n - 1)

allocate_swapped(cols, rows) ==
    push_front_n(SymVec_new, push_front_n(SymVec_new, Empty, rows), cols)

allocate(cols, rows) ==
    push_front_n(SymVec_new, push_front_n(SymVec_new, Empty, cols), rows)

Board_new(width, height) ==
    [cells |-> allocate(max(width, MinDim), max(height, MinDim)), occupied |-> {}]

\* while sv.need_extend_pos(idx) { sv.push_front(e) }
RECURSIVE extend_pos(_, _, _)
extend_pos(sv, idx, e) ==
    IF need_extend_pos(sv, idx) THEN extend_pos(push_front(sv, e), idx, e) ELSE sv

\* while sv.need_extend_neg(idx) { sv.push_back(e) }
RECURSIVE extend_neg(_, _, _)
extend_neg(sv, idx, e) ==
    IF need_extend_neg(sv, idx) THEN extend_neg(push_back(sv, e), idx, e) ELSE sv

\* The two halves of ensure_cell: the rows, then the columns of the row.
ensure_row(cells, row) ==
    IF row >= 0 THEN extend_pos(cells, row, SymVec_new)
                ELSE extend_neg(cells, row, SymVec_new)

ensure_col_occ(r, col) ==
    IF col >= 0 THEN extend_pos(r, col, Occupied) ELSE extend_neg(r, col, Occupied)

ensure_col_extra(r, col) ==
    IF col >= 0 THEN push_front(extend_pos(r, col, Empty), Empty)
                ELSE push_back(extend_neg(r, col, Empty), Empty)

ensure_col(r, col) ==
    IF col >= 0 THEN extend_pos(r, col, Empty) ELSE extend_neg(r, col, Empty)

ensure_cell(cells, col, row) ==
    LET rows == ensure_row(cells, row)
    IN  IndexSet(rows, row, ensure_col(Index(rows, row), col))

born_at_swapped(b, col, row) ==
    LET cells == ensure_cell(b.cells, col, row)
    IN  [cells    |-> IndexSet(cells, row, IndexSet(Index(cells, row), col, Occupied)),
         occupied |-> b.occupied \cup {Coord(row, col)}]

born_at_toggle(b, col, row) ==
    LET cells == ensure_cell(b.cells, col, row)
        old   == Index(Index(cells, row), col)
    IN  IF old = Occupied
        THEN [cells    |-> IndexSet(cells, row, IndexSet(Index(cells, row), col, Empty)),
              occupied |-> b.occupied \ {Coord(col, row)}]
        ELSE [cells    |-> IndexSet(cells, row, IndexSet(Index(cells, row), col, Occupied)),
              occupied |-> b.occupied \cup {Coord(col, row)}]

born_at(b, col, row) ==
    LET cells == ensure_cell(b.cells, col, row)
    IN  [cells    |-> IndexSet(cells, row, IndexSet(Index(cells, row), col, Occupied)),
         occupied |-> b.occupied \cup {Coord(col, row)}]

kill_at_keep(b, col, row) ==
    LET cells == ensure_cell(b.cells, col, row)
    IN  [cells    |-> IndexSet(cells, row, IndexSet(Index(cells, row), col, Empty)),
         occupied |-> b.occupied]

kill_at_clear(b, col, row) ==
    LET cells == ensure_cell(b.cells, col, row)
    IN  [cells    |-> IndexSet(cells, row, IndexSet(Index(cells, row), col, Empty)),
         occupied |-> {}]

kill_at_shrink(b, col, row) ==
    LET cells == ensure_cell(b.cells, col, row)
        killed == IndexSet(Index(cells, row), col, Empty)
        all_empty == \A k \in (-len_neg(killed))..(len_pos(killed) - 1) : Index(killed, k) = Empty
    IN  [cells    |-> IndexSet(cells, row, IF all_empty THEN SymVec_new ELSE killed),
         occupied |-> b.occupied \ {Coord(col, row)}]

kill_at(b, col, row) ==
    LET cells == ensure_cell(b.cells, col, row)
    IN  [cells    |-> IndexSet(cells, row, IndexSet(Index(cells, row), col, Empty)),
         occupied |-> b.occupied \ {Coord(col, row)}]

get_cell(b, col, row) ==
    IF is_available(b.cells, row) /\ is_available(Index(b.cells, row), col)
    THEN Index(Index(b.cells, row), col)
    ELSE Empty

is_alive(b, col, row) == get_cell(b, col, row) /= Empty

get_vicinity_dup(b, col, row) ==
    << is_alive(b, col - 1, row),
       is_alive(b, col - 1, row - 1),
       is_alive(b, col, row - 1),
       is_alive(b, col + 1, row - 1),
       is_alive(b, col + 1, row),
       is_alive(b, col - 1, row + 1),
       is_alive(b, col, row + 1),
       is_alive(b, col - 1, row + 1) >>

get_vicinity_reversed(b, col, row) ==
    << is_alive(b, col - 1, row),
       is_alive(b, col - 1, row + 1),
       is_alive(b, col, row + 1),
       is_alive(b, col + 1, row + 1),
       is_alive(b, col + 1, row),
       is_alive(b, col + 1, row - 1),
       is_alive(b, col, row - 1),
       is_alive(b, col - 1, row - 1) >>

get_vicinity_self(b, col, row) ==
    << is_alive(b, col, row),
       is_alive(b, col - 1, row - 1),
       is_alive(b, col, row - 1),
       is_alive(b, col + 1, row - 1),
       is_alive(b, col + 1, row),
       is_alive(b, col + 1, row + 1),
       is_alive(b, col, row + 1),
       is_alive(b, col - 1, row + 1) >>

get_vicinity(b, col, row) ==
    << is_alive(b, col - 1, row),
       is_alive(b, col - 1, row - 1),
       is_alive(b, col, row - 1),
       is_alive(b, col + 1, row - 1),
       is_alive(b, col + 1, row),
       is_alive(b, col + 1, row + 1),
       is_alive(b, col, row + 1),
       is_alive(b, col - 1, row + 1) >>

get_occupied(b) == b.occupied

\* TRUE iff an index of the call reaches SymVec's panic!: cells[row] and
\* cells[row][col] in get_cell (behind is_available), the eight get_cell of
\* get_vicinity, cells[row] in ensure_cell and cells[row][col] in born_at /
\* kill_at (behind the extension loops).
GetCellPanics(b, col, row) ==
    /\ is_available(b.cells, row)
    /\ \/ IndexPanics(b.cells, row)
       \/ /\ is_available(Index(b.cells, row), col)
          /\ IndexPanics(Index(b.cells, row), col)

GetVicinityPanics(b, col, row) ==
    \E d \in {-1, 0, 1} \X {-1, 0, 1} :
        d /= <<0, 0>> /\ GetCellPanics(b, col + d[1], row + d[2])

EnsureCellPanics(cells, col, row) == IndexPanics(ensure_row(cells, row), row)

WriteCellPanics(b, col, row) ==
    \/ EnsureCellPanics(b.cells, col, row)
    \/ LET cells == ensure_cell(b.cells, col, row)
       IN  IndexPanics(cells, row) \/ IndexPanics(Index(cells, row), col)

(***************************************************************************)
(* The Board iterator (IntoIterator for &Board, BoardIntoIterator).  Its   *)
(* state is row, col and the position idx of cell_iter, a SymVec iterator  *)
(* over cells[row].  BoardIterate is the whole for loop: the pairs yielded *)
(* up to the first None, or up to a panic of an index.                     *)
(***************************************************************************)
Item(b, col, row) == [col |-> col, row |-> row, is_alive |-> is_alive(b, col, row)]

RECURSIVE BoardIterNext(_, _, _, _, _)
BoardIterNext(b, row, col, idx, acc) ==
    \* cell_iter.next(): idx += 1; Some(symvec[idx]) iff idx < len_pos
    IF idx + 1 < len_pos(Index(b.cells, row))
    THEN IF IndexPanics(Index(b.cells, row), idx + 1) \/ GetCellPanics(b, col + 1, row)
         THEN [items |-> acc, panicked |-> TRUE]
         ELSE BoardIterNext(b, row, col + 1, idx + 1, Append(acc, Item(b, col + 1, row)))
    ELSE IF row < len_pos(b.cells) - 1
         THEN IF IndexPanics(b.cells, row + 1)
              THEN [items |-> acc, panicked |-> TRUE]
              ELSE LET r == Index(b.cells, row + 1)
                   IN  \* a fresh cell_iter, advanced once (its element dropped)
                       IF \/ -len_neg(r) < len_pos(r) /\ IndexPanics(r, -len_neg(r))
                          \/ GetCellPanics(b, len_neg(r), row + 1)
                       THEN [items |-> acc, panicked |-> TRUE]
                       ELSE BoardIterNext(b, row + 1, len_neg(r), -len_neg(r) - 1 + 1,
                                          Append(acc, Item(b, len_neg(r), row + 1)))
         ELSE [items |-> acc, panicked |-> FALSE]

BoardIterate(b) ==
    LET row == len_neg(b.cells)
    IN  IF IndexPanics(b.cells, row)
        THEN [items |-> <<>>, panicked |-> TRUE]
        ELSE LET r == Index(b.cells, row)
             IN  BoardIterNext(b, row, len_neg(r) - 1, -len_neg(r) - 1, <<>>)

(***************************************************************************)
(* The engine's step (Engine::one_iteration).  The candidates are the      *)
(* occupied coordinates and their neighbours; the next generation is       *)
(* written into a new Board.                                               *)
(***************************************************************************)
Offsets == << <<-1, 0>>, <<-1, -1>>, <<0, -1>>, <<1, -1>>,
              <<1, 0>>, <<1, 1>>, <<0, 1>>, <<-1, 1>> >>

Neighbours(c) == {Coord(c.col + Offsets[i][1], c.row + Offsets[i][2]) : i \in 1..8}

Candidates(b) == get_occupied(b) \cup UNION {Neighbours(c) : c \in get_occupied(b)}

CountAlive(vicinity) == Cardinality({i \in DOMAIN vicinity : vicinity[i]})

Rule(alive, n) == (alive /\ n \in {2, 3}) \/ (~alive /\ n = 3)

\* Each cell of cs is born in turn; the board of a call is complete (the
\* cell it made is alive) before the next call is made.
RECURSIVE born_all(_, _)
born_all(b, cs) ==
    IF cs = {} THEN b
    ELSE LET c == CHOOSE x \in cs : TRUE
             nb == born_at(b, c.col, c.row)
         IN  IF is_alive(nb, c.col, c.row) THEN born_all(nb, cs \ {c}) ELSE nb

one_iteration(b) ==
    born_all(Board_new(0, 0),
             {c \in Candidates(b) :
                 Rule(is_alive(b, c.col, c.row),
                      CountAlive(get_vicinity(b, c.col, c.row)))})

\* The Engine: its board and its generation counter (cur_iteration).
Engine_new(b) == [board |-> b, generation |-> 0]

Engine_one_iteration(e) ==
    [board |-> one_iteration(e.board), generation |-> e.generation + 1]

Engine_reset_board_only(e) == [e EXCEPT !.board = Board_new(0, 0)]

Engine_reset(e) == [board |-> Board_new(0, 0), generation |-> 0]

Engine_set_board(e, b) == [e EXCEPT !.board = b]

(***************************************************************************)
(* The Game (src/main.rs): a state, the last cursor position, and the      *)
(* engine it steps and edits.                                              *)
(***************************************************************************)
GameStates == {"Working", "Draw", "Paused", "Help"}

\* Option<[f64; 2]>: the position is kept as the pixel pair <<x, y>>.
NoPos == [some |-> FALSE, val |-> <<0, 0>>]

SomePos(x, y) == [some |-> TRUE, val |-> <<x, y>>]

Game_new == [cur_state |-> "Paused", last_pos |-> NoPos]

GameIdle ==
    /\ last_pos = Game_new.last_pos
    /\ prev_state = Game_new.cur_state
    /\ panicked = FALSE

\* The window and cell sizes the Game is made with, in pixels.
GameWidth == 1024
GameHeight == 768
CellWidth == 10
CellHeight == 10
CellBias == 5

\* `(a / b) as isize` for whole a and b > 0: the quotient, rounded towards 0.
trunc_div(a, b) == IF a >= 0 THEN a \div b ELSE -((-a) \div b)

\* One axis of to_logical: the pixel's offset from the middle of the window,
\* moved away from it by CellBias, in cells.
to_logical_axis(p, size, cell) ==
    LET offset == p - (size \div 2)
        biased == IF offset < 0 THEN offset - CellBias
                  ELSE IF offset > 0 THEN offset + CellBias ELSE offset
    IN  trunc_div(biased, cell)

to_logical(x, y) ==
    Coord(to_logical_axis(x, GameWidth, CellWidth), to_logical_axis(y, GameHeight, CellHeight))

born_or_kill(b, kill_alive, x, y) ==
    LET c == to_logical(x, y)
    IN  IF kill_alive /\ is_alive(b, c.col, c.row)
        THEN kill_at(b, c.col, c.row)
        ELSE born_at(b, c.col, c.row)

\* Key::P in the Game's event loop.
Game_press_P_stay(state) == IF state = "Working" THEN "Paused" ELSE state

Game_press_P(state) == IF state = "Working" THEN "Paused" ELSE "Working"

(***************************************************************************)
(* The UI (ui/src/lib.rs): a state, and a stack of windows that receive    *)
(* every event in stack order.  A window is [kind, modal, callback].       *)
(***************************************************************************)
States == {"Working", "Paused", "StepByStep"}

GameBoard == [kind |-> "board", modal |-> FALSE, callback |-> "none"]

HUDWindow == [kind |-> "hud", modal |-> FALSE, callback |-> "none"]

ConfirmationWindow(callback) == [kind |-> "confirm", modal |-> TRUE, callback |-> callback]

InfoWindow == [kind |-> "info", modal |-> TRUE, callback |-> "none"]

\* The PostAction enum.
PostActions == {"Transfer", "Stop", "Pop"}

\* Any implementor of WindowBase: id tells the windows apart, post is what
\* its event_dispatcher returns for the next event.
AnyWindow(id, post) ==
    [kind |-> "any", modal |-> FALSE, callback |-> "none", id |-> id, post |-> post]

push(st, w) == Append(st, w)

UI_push_front_always(st, w) == <<w>> \o st

UI_push_front(st, w) ==
    IF Len(st) /= 0
    THEN IF ~st[1].modal THEN <<w>> \o st ELSE st
    ELSE st

create_prompt_window(st, callback) == UI_push_front(st, ConfirmationWindow(callback))

create_info_window(st) == UI_push_front(st, InfoWindow)

\* The events: the keys the UI handles, the user's answer to a prompt or an
\* info window, and any other event.
Events == {"C", "P", "S", "R", "Ok", "Cancel", "Other"}

\* A window's event_dispatcher: the PostAction it returns.
PostAction(w, ev) ==
    IF w.kind = "any" THEN w.post
    ELSE IF w.kind \in {"hud", "board"} THEN "Transfer"
    ELSE IF ev \in {"Ok", "Cancel"} THEN "Pop" ELSE "Stop"

Callback_any_answer(w, ev, e, random) ==
    IF w.kind = "confirm" /\ ev \in {"Ok", "Cancel"}
    THEN IF w.callback = "reset" THEN Engine_reset(e) ELSE Engine_set_board(e, random)
    ELSE e

\* A window's event_dispatcher: the engine after it; a prompt calls its
\* callback with the user's choice, random is what create_random returned.
Callback(w, ev, e, random) ==
    IF w.kind = "confirm" /\ ev = "Ok"
    THEN IF w.callback = "reset" THEN Engine_reset(e) ELSE Engine_set_board(e, random)
    ELSE e

\* The loop over the stack: the engine after it and the indices to remove.
RECURSIVE dispatch(_, _, _, _, _, _)
dispatch(st, n, ev, e, random, to_remove) ==
    IF n > Len(st) THEN [engine |-> e, to_remove |-> to_remove]
    ELSE LET post_action == PostAction(st[n], ev)
             e2 == Callback(st[n], ev, e, random)
         IN  IF post_action = "Stop" THEN [engine |-> e2, to_remove |-> to_remove]
             ELSE dispatch(st, n + 1, ev, e2, random,
                           IF post_action = "Pop" THEN Append(to_remove, n - 1)
                                                  ELSE to_remove)

\* Vec::remove(idx).
Vec_remove(st, idx) == SubSeq(st, 1, idx) \o SubSeq(st, idx + 2, Len(st))

RECURSIVE remove_scheduled(_, _)
remove_scheduled(st, to_remove) ==
    IF to_remove = <<>> THEN [stack |-> st, panicked |-> FALSE]
    ELSE IF Head(to_remove) >= Len(st) THEN [stack |-> st, panicked |-> TRUE]
    ELSE remove_scheduled(Vec_remove(st, Head(to_remove)), Tail(to_remove))

manage_windows(st, ev, e, random) ==
    LET d == dispatch(st, 1, ev, e, random, <<>>)
        r == remove_scheduled(st, d.to_remove)
    IN  [stack |-> r.stack, engine |-> d.engine, panicked |-> r.panicked]

\* The match on the event in UI::event_dispatcher: the state and the stack
\* after it.
KeyState(state, ev) ==
    CASE ev = "C" -> "Paused"
      [] ev = "P" -> IF state = "Working" THEN "Paused" ELSE "Working"
      [] ev = "S" -> IF state = "Working" \/ state = "Paused" THEN "StepByStep" ELSE state
      [] OTHER -> state

KeyStack(state, st, ev, inf) ==
    CASE ev = "C" -> create_prompt_window(st, "reset")
      [] ev = "R" -> IF state = "Paused"
                     THEN IF inf THEN create_info_window(st)
                                 ELSE create_prompt_window(st, "random")
                     ELSE st
      [] OTHER -> st

UI_new == [cur_state |-> "Paused", stack |-> push(push(<<>>, GameBoard), HUDWindow)]

UIIdle ==
    /\ infinite = FALSE
    /\ cur_state = UI_new.cur_state
    /\ stack = UI_new.stack
    /\ event = "none"
    /\ GameIdle

(***************************************************************************)
(* Specification SpecSymVec: pushes on one SymVec.                         *)
(***************************************************************************)
NoOp == [op |-> "none", col |-> 0, row |-> 0]

BoardIdle ==
    /\ board = Board_new(0, 0)
    /\ last = NoOp
    /\ rep = FALSE
    /\ written = {}
    /\ born = {}
    /\ nops = 0

SymVecIdle == v = SymVec_new /\ log = <<>>

EngineIdle == seed = {} /\ generation = 0

InitSymVec == SymVecIdle /\ BoardIdle /\ EngineIdle /\ UIIdle

PushFront(e) ==
    /\ Len(log) < MaxPushes
    /\ v' = push_front(v, e)
    /\ log' = Append(log, <<"front", e>>)
    /\ UNCHANGED <<boardVars, engineVars, uiVars, gameVars>>

PushBack(e) ==
    /\ Len(log) < MaxPushes
    /\ v' = push_back(v, e)
    /\ log' = Append(log, <<"back", e>>)
    /\ UNCHANGED <<boardVars, engineVars, uiVars, gameVars>>

NextSymVec == \E e \in Values : PushFront(e) \/ PushBack(e)

SpecSymVec == InitSymVec /\ [][NextSymVec]_vars

(***************************************************************************)
(* Specification Spec: born_at and kill_at calls on a Board made by        *)
(* Board::new.                                                             *)
(***************************************************************************)
\* The indices exercised: two on the negative side, the last of the minimum
\* 4x4 allocation, and two beyond it.
Idx == {-2, -1, 3, 4, 5}

Coords == {Coord(c, r) : c \in Idx, r \in Idx}

Init ==
    /\ board = Board_new(0, 0)
    /\ last = NoOp
    /\ rep = FALSE
    /\ written = {}
    /\ born = {}
    /\ nops = 0
    /\ SymVecIdle
    /\ EngineIdle
    /\ UIIdle

BornAt(col, row) ==
    /\ nops < MaxOps
    /\ board' = born_at(board, col, row)
    /\ last' = [op |-> "born_at", col |-> col, row |-> row]
    /\ rep' = (last = last')
    /\ written' = written \cup {Coord(col, row)}
    /\ born' = born \cup {Coord(col, row)}
    /\ nops' = nops + 1
    /\ UNCHANGED <<symVars, engineVars, uiVars, gameVars>>

KillAt(col, row) ==
    /\ nops < MaxOps
    /\ board' = kill_at(board, col, row)
    /\ last' = [op |-> "kill_at", col |-> col, row |-> row]
    /\ rep' = (last = last')
    /\ written' = written \cup {Coord(col, row)}
    /\ born' = born
    /\ nops' = nops + 1
    /\ UNCHANGED <<symVars, engineVars, uiVars, gameVars>>

Next == \E c \in Coords : BornAt(c.col, c.row) \/ KillAt(c.col, c.row)

Spec == Init /\ [][Next]_vars

(***************************************************************************)
(* Specification SpecLife: an engine created with a seeded Board, stepped. *)
(***************************************************************************)
SeedRegion == {Coord(c, r) : c \in 0..MaxSeedCol, r \in 0..MaxSeedRow}

InitLife ==
    /\ seed \in SUBSET SeedRegion
    /\ board = born_all(Board_new(0, 0), seed)
    /\ generation = 0
    /\ last = NoOp
    /\ rep = FALSE
    /\ written = {}
    /\ born = {}
    /\ nops = 0
    /\ SymVecIdle
    /\ UIIdle

Step ==
    /\ generation < MaxGen
    /\ board' = one_iteration(board)
    /\ generation' = generation + 1
    /\ UNCHANGED <<symVars, last, rep, written, born, nops, seed, uiVars, gameVars>>

NextLife == Step

SpecLife == InitLife /\ [][NextLife]_vars

(***************************************************************************)
(* Specification SpecEngine: the calls made on an Engine: steps, reset,    *)
(* set_board and edits of its board through get_board_mut.                 *)
(***************************************************************************)
MaxHint == 10       \* Board::new is called with width and height 0..MaxHint
MaxIterated == 36   \* fresh boards of up to MaxIterated cells are iterated
MaxCalls == 4       \* calls made on the Engine

engine == [board |-> board, generation |-> generation]

EngineCall(op, c, e) ==
    /\ nops < MaxCalls
    /\ board' = e.board
    /\ generation' = e.generation
    /\ last' = [op |-> op, col |-> c.col, row |-> c.row]
    /\ nops' = nops + 1
    /\ UNCHANGED <<symVars, rep, written, born, seed, uiVars, gameVars>>

EngineStep ==
    /\ generation < MaxGen
    /\ EngineCall("one_iteration", Coord(0, 0), Engine_one_iteration(engine))

EngineReset == EngineCall("reset", Coord(0, 0), Engine_reset(engine))

EngineSetBoard(cs) ==
    EngineCall("set_board", Coord(0, 0),
               Engine_set_board(engine, born_all(Board_new(0, 0), cs)))

EngineBornAt(c) ==
    EngineCall("born_at", c, [engine EXCEPT !.board = born_at(@, c.col, c.row)])

EngineKillAt(c) ==
    EngineCall("kill_at", c, [engine EXCEPT !.board = kill_at(@, c.col, c.row)])

\* The boards given to set_board and the cells edited.
SetBoards == {{Coord(0, 0), Coord(1, 0), Coord(2, 0)},
              {Coord(0, 0), Coord(1, 0), Coord(0, 1), Coord(1, 1)}}

EditCoords == {Coord(1, 1), Coord(-1, 0)}

NextEngine ==
    \/ EngineStep
    \/ EngineReset
    \/ \E cs \in SetBoards : EngineSetBoard(cs)
    \/ \E c \in EditCoords : EngineBornAt(c) \/ EngineKillAt(c)

SpecEngine == Init /\ [][NextEngine]_vars

(***************************************************************************)
(* Specification SpecUI: the events dispatched by UI::event_dispatcher on  *)
(* a UI made by new() around an engine.                                    *)
(***************************************************************************)
\* The cells create_random may make alive.
RandomRegion == {Coord(0, 0), Coord(1, 1), Coord(3, 3)}

RandomBoards == {born_all(Board_new(0, 0), cs) : cs \in SUBSET RandomRegion}

InitUI ==
    /\ infinite \in BOOLEAN
    /\ cur_state = UI_new.cur_state
    /\ stack = UI_new.stack
    /\ event = "none"
    /\ GameIdle
    /\ board \in {born_all(Board_new(0, 0), cs) : cs \in SetBoards \cup {{}}}
    /\ generation \in 0..MaxGen
    /\ seed = {}
    /\ last = NoOp
    /\ rep = FALSE
    /\ written = {}
    /\ born = {}
    /\ nops = 0
    /\ SymVecIdle

UIEvent(ev, random) ==
    LET m == manage_windows(KeyStack(KeyState(cur_state, ev), stack, ev, infinite),
                            ev, engine, random)
    IN  /\ cur_state' = KeyState(cur_state, ev)
        /\ stack' = m.stack
        /\ board' = m.engine.board
        /\ generation' = m.engine.generation
        /\ UNCHANGED <<symVars, last, rep, written, born, nops, seed, infinite, gameVars>>

PressC == event' = "C" /\ UIEvent("C", board)

PressP == event' = "P" /\ UIEvent("P", board)

PressS == event' = "S" /\ UIEvent("S", board)

PressR == event' = "R" /\ UIEvent("R", board)

AnswerOk == event' = "Ok" /\ \E random \in RandomBoards : UIEvent("Ok", random)

AnswerCancel == event' = "Cancel" /\ UIEvent("Cancel", board)

OtherEvent == event' = "Other" /\ UIEvent("Other", board)

NextUI == PressC \/ PressP \/ PressS \/ PressR \/ AnswerOk \/ AnswerCancel \/ OtherEvent

SpecUI == InitUI /\ [][NextUI]_vars

(***************************************************************************)
(* Specification SpecNew: Board::new with every width and height hint.     *)
(***************************************************************************)
BoardNew(width, height) ==
    /\ board' = Board_new(width, height)
    /\ last' = [op |-> "new", col |-> width, row |-> height]
    /\ UNCHANGED <<symVars, rep, written, born, nops, engineVars, uiVars, gameVars>>

NextNew == \E width \in 0..MaxHint, height \in 0..MaxHint : BoardNew(width, height)

SpecNew == Init /\ [][NextNew]_vars

(***************************************************************************)
(* Specification SpecGame: the events handled by Game::event_dispatcher    *)
(* (src/main.rs) on a Game made by Game::new.                              *)
(***************************************************************************)
\* The cursor positions of the mouse events, in pixels.
CursorXs == {(GameWidth \div 2) - 16, (GameWidth \div 2) + 7}

CursorYs == {(GameHeight \div 2) - 5, (GameHeight \div 2) + 30}

InitGame ==
    /\ cur_state = Game_new.cur_state
    /\ last_pos = Game_new.last_pos
    /\ prev_state = Game_new.cur_state
    /\ panicked = FALSE
    /\ event = "none"
    /\ stack = UI_new.stack
    /\ infinite = FALSE
    /\ board = Board_new(0, 0)
    /\ generation = 0
    /\ seed = {}
    /\ last = NoOp
    /\ rep = FALSE
    /\ written = {}
    /\ born = {}
    /\ nops = 0
    /\ SymVecIdle

\* What every handler leaves alone, and the ghosts it sets.
GameEvent(ev) ==
    /\ event' = ev
    /\ prev_state' = cur_state
    /\ UNCHANGED <<symVars, last, rep, written, born, seed, infinite, stack, panicked>>

GameRender_always(elapsed) ==
    /\ GameEvent("Render")
    /\ IF elapsed /\ generation < MaxGen
       THEN /\ board' = Engine_one_iteration(engine).board
            /\ generation' = Engine_one_iteration(engine).generation
       ELSE UNCHANGED <<board, generation>>
    /\ UNCHANGED <<cur_state, last_pos, nops>>

\* Event::Render; elapsed: at least 10 ms passed since the last iteration.
GameRender(elapsed) ==
    /\ GameEvent("Render")
    /\ IF cur_state = "Working" /\ elapsed /\ generation < MaxGen
       THEN /\ board' = Engine_one_iteration(engine).board
            /\ generation' = Engine_one_iteration(engine).generation
       ELSE UNCHANGED <<board, generation>>
    /\ UNCHANGED <<cur_state, last_pos, nops>>

GamePressP ==
    /\ GameEvent("P")
    /\ cur_state' = Game_press_P(cur_state)
    /\ UNCHANGED <<board, generation, last_pos, nops>>

GameMouseRelease ==
    /\ GameEvent("Release")
    /\ IF last_pos.some
       THEN /\ nops < MaxOps
            /\ board' = born_or_kill(board, TRUE, last_pos.val[1], last_pos.val[2])
            /\ nops' = nops + 1
            /\ cur_state' = "Paused"
       ELSE UNCHANGED <<board, nops, cur_state>>
    /\ UNCHANGED <<generation, last_pos>>

GameMouseMove(x, y) ==
    /\ GameEvent("Move")
    /\ IF cur_state = "Draw"
       THEN /\ nops < MaxOps
            /\ board' = born_or_kill(board, FALSE, x, y)
            /\ nops' = nops + 1
       ELSE UNCHANGED <<board, nops>>
    /\ last_pos' = SomePos(x, y)
    /\ UNCHANGED <<generation, cur_state>>

GameMousePress ==
    /\ GameEvent("Press")
    /\ cur_state' = "Draw"
    /\ UNCHANGED <<board, generation, last_pos, nops>>

\* The camera keys and every event not matched: no state of the model.
GameOtherEvent ==
    /\ GameEvent("Other")
    /\ UNCHANGED <<board, generation, cur_state, last_pos, nops>>

NextGame ==
    \/ \E elapsed \in BOOLEAN : GameRender(elapsed)
    \/ GamePressP
    \/ GameMouseRelease
    \/ \E x \in CursorXs, y \in CursorYs : GameMouseMove(x, y)
    \/ GameMousePress
    \/ GameOtherEvent

SpecGame == InitGame /\ [][NextGame]_vars

(***************************************************************************)
(* Specification SpecWindows: UI::manage_windows on stacks of windows that *)
(* return any PostAction.                                                  *)
(***************************************************************************)
MaxWindows == 4     \* windows on the stack

\* The stacks of the windows idents with every PostAction for the next event.
RECURSIVE WindowStacks(_)
WindowStacks(idents) ==
    IF idents = <<>> THEN {<<>>}
    ELSE {<<AnyWindow(Head(idents), p)>> \o rest :
             p \in PostActions, rest \in WindowStacks(Tail(idents))}

WindowIds(st) == [n \in 1..Len(st) |-> st[n].id]

InitWindows ==
    /\ \E k \in 0..MaxWindows : stack \in WindowStacks([n \in 1..k |-> n])
    /\ event = "none"
    /\ cur_state = UI_new.cur_state
    /\ infinite = FALSE
    /\ GameIdle
    /\ board = Board_new(0, 0)
    /\ generation = 0
    /\ seed = {}
    /\ last = NoOp
    /\ rep = FALSE
    /\ written = {}
    /\ born = {}
    /\ nops = 0
    /\ SymVecIdle

\* One event given to manage_windows; a panic of Vec::remove ends the
\* program, and the windows left answer the next event as they choose.
WindowsEvent ==
    LET m == manage_windows(stack, "Other", engine, board)
    IN  /\ ~panicked
        /\ event' = "Other"
        /\ panicked' = m.panicked
        /\ stack' \in WindowStacks(WindowIds(m.stack))
        /\ board' = m.engine.board
        /\ generation' = m.engine.generation
        /\ UNCHANGED <<symVars, last, rep, written, born, nops, seed, infinite,
                       cur_state, last_pos, prev_state>>

NextWindows == WindowsEvent

SpecWindows == InitWindows /\ [][NextWindows]_vars

(***************************************************************************)
(* Specification SpecDeep: born_at and kill_at calls that reach as many    *)
(* rows below row 0 as Board::new allocates above it.                      *)
(***************************************************************************)
DeepCoords == {Coord(c, r) : c \in {-1, 0}, r \in {-MinDim, -(MinDim - 1), 0, MinDim}}

NextDeep == \E c \in DeepCoords : BornAt(c.col, c.row) \/ KillAt(c.col, c.row)

SpecDeep == Init /\ [][NextDeep]_vars

(***************************************************************************)
(* Properties.                                                             *)
(***************************************************************************)
\* The coordinates looked at: the exercised window and one ring around it.
ProbeIdx == (-3)..(MinDim + 2)

Probe == {Coord(c, r) : c \in ProbeIdx, r \in ProbeIdx}

\* The logical indices a SymVec has allocated.
Allocated(sv) == (-len_neg(sv))..(len_pos(sv) - 1)

\* The coordinates a Board has allocated.
AllocatedCoords(b) ==
    UNION {{Coord(c, r) : c \in Allocated(Index(b.cells, r))} : r \in Allocated(b.cells)}

\* C1: after any sequence of born_at / kill_at calls the occupied set is exactly
\* the set of coordinates where is_alive is true: an allocated cell stores
\* Occupied iff its coordinate is in the set, and an unallocated coordinate is
\* Empty and not in the set.
OccupiedConsistent ==
    LET alloc == AllocatedCoords(board)
        occ   == get_occupied(board)
    IN  /\ occ \subseteq alloc
        /\ \A c \in alloc :
              (Index(Index(board.cells, c.row), c.col) = Occupied) <=> (c \in occ)
        /\ \A c \in Probe \cup alloc : is_alive(board, c.col, c.row) <=> (c \in occ)
        /\ \A c \in Probe \ alloc : get_cell(board, c.col, c.row) = Empty

OccupiedConsistentWitness ==
    /\ last.op = "kill_at"
    /\ ~rep
    /\ \E c \in get_occupied(board) : c.row < 0 /\ c.col < 0

\* The values pushed on one side, in call order.
Pushed(side) == SelectSeq(log, LAMBDA x : x[1] = side)

\* C2: the k-th push_front value stays at index k - 1 and the k-th push_back
\* value at index -k, whatever was pushed later on either side, and len() is
\* the number of pushes made.
PushesRetrievable ==
    /\ \A k \in 1..Len(Pushed("front")) :
          ~IndexPanics(v, k - 1) /\ Index(v, k - 1) = Pushed("front")[k][2]
    /\ \A k \in 1..Len(Pushed("back")) :
          ~IndexPanics(v, -k) /\ Index(v, -k) = Pushed("back")[k][2]
    /\ len(v) = Len(log)

PushesRetrievableWitness ==
    /\ Len(log) >= 4
    /\ log[1] = <<"front", 1>>
    /\ log[2] = <<"back", 2>>
    /\ log[3] = <<"back", 1>>
    /\ log[4] = <<"front", 2>>

\* The push_front (side "front") or push_back calls among the first p calls.
PushedBy(side, p) == Len(SelectSeq(SubSeq(log, 1, p), LAMBDA x : x[1] = side))

\* C5: need_extend_pos(i) is true iff i >= len_pos and need_extend_neg(i) iff
\* -i > len_neg, where the lengths are the pushes made on the side; and an index
\* that needed extension when the side had P elements stops needing it after
\* exactly i - P + 1 push_front calls (-i - P push_back calls), not earlier.
NeedExtendExact ==
    \A i \in Indices :
        /\ need_extend_pos(v, i) <=> (i >= PushedBy("front", Len(log)))
        /\ need_extend_neg(v, i) <=> (-i > PushedBy("back", Len(log)))
        /\ \A p \in 0..Len(log) :
              LET P == PushedBy("front", p)
                  N == PushedBy("back", p)
              IN  /\ (i >= P) =>
                        (~need_extend_pos(v, i) <=> (PushedBy("front", Len(log)) - P >= i - P + 1))
                  /\ (-i > N) =>
                        (~need_extend_neg(v, i) <=> (PushedBy("back", Len(log)) - N >= -i - N))

NeedExtendExactWitness ==
    /\ Len(Pushed("front")) >= 2
    /\ Len(Pushed("back")) >= 2
    /\ ~need_extend_pos(v, 1) /\ need_extend_pos(v, 2)
    /\ ~need_extend_neg(v, -2) /\ need_extend_neg(v, -3)

\* C4: a coordinate never passed to born_at or kill_at reads as Empty / false
\* through get_cell, is_alive and get_vicinity, whether it lies inside the
\* allocation or outside it in any direction.  (The reads are functions of the
\* Board: they take &self and return no Board.)
NeverWrittenReadsEmpty ==
    /\ \A c \in Probe \ written :
          get_cell(board, c.col, c.row) = Empty /\ ~is_alive(board, c.col, c.row)
    /\ \A c \in written \cup {Coord(-3, -3), Coord(MinDim + 2, MinDim + 2)} :
          LET vicinity == get_vicinity(board, c.col, c.row)
          IN  \A i \in 1..8 :
                 (Coord(c.col + Offsets[i][1], c.row + Offsets[i][2]) \notin written)
                    => ~vicinity[i]

NeverWrittenReadsEmptyWitness ==
    /\ \E c \in Probe \ written : c.row < 0 /\ c.col < 0 /\ c \in AllocatedCoords(board)
    /\ \E c \in Probe \ written :
          /\ c.row >= MinDim
          /\ is_available(board.cells, c.row)
          /\ c \notin AllocatedCoords(board)
    /\ get_occupied(board) /= {}

\* What ensure_cell may change: new is old grown just enough to index (col, row).
MinimalGrowth(old, new, col, row) ==
    LET orow == IF is_available(old, row) THEN Index(old, row) ELSE SymVec_new
        nrow == Index(new, row)
    IN  /\ is_available(new, row)
        /\ is_available(nrow, col)
        /\ IF row >= 0
           THEN len_neg(new) = len_neg(old) /\ len_pos(new) = max(len_pos(old), row + 1)
           ELSE len_pos(new) = len_pos(old) /\ len_neg(new) = max(len_neg(old), -row)
        /\ \A j \in Allocated(new) \ {row} :
              Index(new, j) = IF is_available(old, j) THEN Index(old, j) ELSE SymVec_new
        /\ IF col >= 0
           THEN /\ nrow.vec_neg = orow.vec_neg
                /\ len_pos(nrow) = max(len_pos(orow), col + 1)
                /\ \A k \in 1..len_pos(nrow) :
                      nrow.vec_pos[k] = IF k <= len_pos(orow) THEN orow.vec_pos[k] ELSE Empty
           ELSE /\ nrow.vec_pos = orow.vec_pos
                /\ len_neg(nrow) = max(len_neg(orow), -col)
                /\ \A k \in 1..len_neg(nrow) :
                      nrow.vec_neg[k] = IF k <= len_neg(orow) THEN orow.vec_neg[k] ELSE Empty
        /\ (is_available(old, row) /\ is_available(Index(old, row), col)) => new = old

\* C6: the ensure_cell(col, row) of every born_at / kill_at call makes (col, row)
\* indexable and grows nothing else: the rows only on the side of row and up to
\* row, the addressed row only on the side of col and up to col, new cells Empty,
\* other rows untouched (new ones without columns), and nothing at all when
\* (col, row) was allocated; the call then changes only the cell (col, row).
EnsureCellMinimal ==
    [][LET col == last'.col
           row == last'.row
           new == ensure_cell(board.cells, col, row)
       IN  /\ MinimalGrowth(board.cells, new, col, row)
           /\ board'.cells =
                 IndexSet(new, row, IndexSet(Index(new, row), col,
                                             Index(Index(board'.cells, row), col)))]_vars

EnsureCellMinimalWitness ==
    /\ last.row = -2 /\ last.col = MinDim + 1
    /\ len_neg(board.cells) = 2
    /\ Index(board.cells, -1) = SymVec_new
    /\ len_pos(Index(board.cells, -2)) = MinDim + 2

\* The (Coord, is_alive) pairs of the allocated cells of rows lo..hi, rows in
\* increasing order and columns in increasing order within a row.
RECURSIVE RowItems(_, _, _, _)
RowItems(b, row, lo, hi) ==
    IF lo > hi THEN <<>> ELSE <<Item(b, lo, row)>> \o RowItems(b, row, lo + 1, hi)

RECURSIVE AllocatedItems(_, _, _)
AllocatedItems(b, lo, hi) ==
    IF lo > hi THEN <<>>
    ELSE RowItems(b, lo, -len_neg(Index(b.cells, lo)), len_pos(Index(b.cells, lo)) - 1)
            \o AllocatedItems(b, lo + 1, hi)

\* C7: iterating a Board yields every allocated coordinate exactly once, with
\* is_alive as Board::is_alive gives it, from the most negative row up and from
\* the most negative column up within a row, and nothing else; so the pairs are
\* as many as the allocated cells and the live pairs as many as the live cells.
IterationCoversAllocation ==
    LET it == BoardIterate(board)
    IN  /\ ~it.panicked
        /\ it.items = AllocatedItems(board, -len_neg(board.cells), len_pos(board.cells) - 1)
        /\ Len(it.items) = Cardinality(AllocatedCoords(board))
        /\ Cardinality({k \in DOMAIN it.items : it.items[k].is_alive})
              = Cardinality(get_occupied(board))

\* C10: born_at and kill_at are idempotent: on the Board a born_at(c) call left,
\* a second born_at(c) changes neither cells, occupied set nor allocation, and
\* likewise for kill_at.
CallsIdempotent ==
    /\ last.op = "born_at" => born_at(board, last.col, last.row) = board
    /\ last.op = "kill_at" => kill_at(board, last.col, last.row) = board

CallsIdempotentWitness ==
    /\ rep
    /\ last.op = "born_at"
    /\ last.row < 0
    /\ last.col >= MinDim

\* The coordinates a seed can reach in MaxGen generations, and one ring more.
Window ==
    {Coord(c, r) : c \in (-(MaxGen + 1))..(MaxSeedCol + MaxGen + 1),
                   r \in (-(MaxGen + 1))..(MaxSeedRow + MaxGen + 1)}

LiveSet(b) == {c \in Window : is_alive(b, c.col, c.row)}

\* The occupied neighbours of c in Board b, counted cell by cell.
LiveNeighbours(b, c) == Cardinality({d \in Neighbours(c) : is_alive(b, d.col, d.row)})

\* C3: after a step a coordinate is Occupied iff, in the Board before the step,
\* it was occupied with 2 or 3 occupied neighbours or empty with exactly 3; this
\* holds for every coordinate, not only for the candidates, and the occupied set
\* of the new Board is that live set.
StepAppliesRule ==
    [][generation' = generation + 1 =>
          /\ \A c \in Window :
                is_alive(board', c.col, c.row)
                   <=> \/ is_alive(board, c.col, c.row) /\ LiveNeighbours(board, c) \in {2, 3}
                       \/ ~is_alive(board, c.col, c.row) /\ LiveNeighbours(board, c) = 3
          /\ get_occupied(board') = LiveSet(board')]_vars

StepAppliesRuleWitness ==
    /\ generation = 1
    /\ \E c \in get_occupied(board) : c \notin seed /\ c.row < 0
    /\ \E c \in seed : c \notin get_occupied(board)
    /\ \E c \in seed : c \in get_occupied(board)

BlinkerH == {Coord(0, 0), Coord(1, 0), Coord(2, 0)}

BlinkerV == {Coord(1, -1), Coord(1, 0), Coord(1, 1)}

Block == {Coord(0, 0), Coord(1, 0), Coord(0, 1), Coord(1, 1)}

\* C8: from the live set {(0,0),(1,0),(2,0)} one step gives {(1,-1),(1,0),(1,1)}
\* and a second step gives {(0,0),(1,0),(2,0)} again.
BlinkerOscillates ==
    /\ (seed = BlinkerH /\ generation = 1) =>
          get_occupied(board) = BlinkerV /\ LiveSet(board) = BlinkerV
    /\ (seed = BlinkerH /\ generation = 2) =>
          get_occupied(board) = BlinkerH /\ LiveSet(board) = BlinkerH

BlinkerOscillatesWitness ==
    seed = BlinkerH /\ generation = 2 /\ get_occupied(board) = BlinkerH

\* C9: from the 2x2 block {(0,0),(1,0),(0,1),(1,1)} the live set is the same
\* block after every number of steps.
BlockIsStill ==
    seed = Block => get_occupied(board) = Block /\ LiveSet(board) = Block

BlockIsStillWitness == seed = Block /\ generation >= 2

\* C11, as claimed: kill_at(c) on a coordinate never born, also one outside the
\* allocation, leaves the Board as it was: occupied set, cells and allocated
\* rows and columns.
KillNeverBornChangesNothing ==
    [][(last'.op = "kill_at" /\ Coord(last'.col, last'.row) \notin born)
          => board' = board]_vars

\* C11, amended: kill_at(c) on a coordinate never born leaves the occupied set
\* and the state of every cell as they were; the allocation stays as it was
\* when c was allocated and otherwise grows by what ensure_cell(c) needs to
\* index c, the new cells Empty.
KillNeverBornKeepsCells ==
    [][(last'.op = "kill_at" /\ Coord(last'.col, last'.row) \notin born)
          => /\ get_occupied(board') = get_occupied(board)
             /\ \A p \in Probe : get_cell(board', p.col, p.row) = get_cell(board, p.col, p.row)
             /\ MinimalGrowth(board.cells, board'.cells, last'.col, last'.row)
             /\ (Coord(last'.col, last'.row) \in AllocatedCoords(board)) => board' = board]_vars

KillNeverBornKeepsCellsWitness ==
    /\ last.op = "kill_at"
    /\ Coord(last.col, last.row) \notin born
    /\ last.row = -2 /\ last.col = -2
    /\ len_neg(board.cells) = 2
    /\ len_neg(Index(board.cells, -2)) = 2
    /\ get_occupied(board) /= {}

\* C12: whatever born_at / kill_at calls were made, no call of the Board's API
\* reaches the out-of-range panic of SymVec: not born_at, kill_at, is_alive,
\* get_cell or get_vicinity at any coordinate, nor an iteration of the Board
\* (into_iter and next to the end, as to_string does).
NoIndexPanic ==
    /\ \A c \in Probe \cup DeepCoords :
          /\ ~GetCellPanics(board, c.col, c.row)
          /\ ~GetVicinityPanics(board, c.col, c.row)
          /\ ~WriteCellPanics(board, c.col, c.row)
    /\ ~BoardIterate(board).panicked

\* The indices probed on a SymVec: those around its elements and the ends of
\* the isize range.
SignedIndices == Indices \cup {IsizeMin, IsizeMin + 1, IsizeMax - 1, IsizeMax}

\* C13: for every SymVec state and every signed index i, is_available(i)
\* returns (in every build) and returns true exactly when v[i] succeeds: when
\* it returns false v[i] panics, when it returns true v[i] is a pushed value.
IsAvailableIffIndexSucceeds ==
    \A i \in SignedIndices, b \in Builds :
        LET o == is_available_call(b, v, i) IN
        /\ ~o.panic
        /\ (o.ret = Some(1)) <=> ~IndexPanics(v, i)
        /\ ~IndexPanics(v, i) => Index(v, i) \in Values

\* C17: for a SymVec of positive length P and negative length N and every
\* signed i, need_extend_pos_cnt(i) returns Some(i - P) when i > P and None
\* otherwise, and need_extend_neg_cnt(i) returns Some(-i - N) when -i > N and
\* None otherwise, in every build.
NeedExtendCntExact ==
    \A i \in SignedIndices, b \in Builds :
        LET P == len_pos(v)
            N == len_neg(v)
            p == need_extend_pos_cnt_call(b, v, i)
            n == need_extend_neg_cnt_call(b, v, i)
        IN /\ ~p.panic
           /\ ~n.panic
           /\ p.ret = IF i > P THEN Some(i - P) ELSE None
           /\ n.ret = IF -i > N THEN Some(-i - N) ELSE None

\* C14: iterating a SymVec yields len() elements without panicking, the j-th
\* being the element at logical index -len_neg + j - 1: the push_back values
\* from the last pushed to the first, then the push_front values from the first
\* pushed to the last; an empty SymVec yields nothing.
IterationInIndexOrder ==
    LET it == SymVecIterate(v)
        back == Pushed("back")
        front == Pushed("front")
    IN /\ ~it.panicked
       /\ Len(it.items) = len(v)
       /\ Len(it.items) = Len(log)
       /\ \A j \in 1..Len(it.items) :
             /\ it.items[j] = Index(v, j - 1 - len_neg(v))
             /\ it.items[j] = IF j <= Len(back) THEN back[Len(back) - j + 1][2]
                                               ELSE front[j - Len(back)][2]
       /\ (log = <<>>) => it.items = <<>>

IterationInIndexOrderWitness ==
    /\ log = <<<<"back", 1>>, <<"back", 2>>, <<"front", 1>>, <<"front", 2>>, <<"front", 2>>>>
    /\ SymVecIterate(v).items = <<2, 1, 1, 2, 2>>

\* C16: the generation counter starts at 0; a completed one_iteration adds
\* exactly 1 to it; born_at / kill_at edits and set_board leave it as it was;
\* reset sets it to 0 and replaces the board by an empty one; nothing else
\* changes it.
GenerationCountsSteps ==
    /\ generation = 0
    /\ [][/\ (last'.op = "one_iteration") => generation' = generation + 1
          /\ (last'.op \in {"born_at", "kill_at", "set_board"}) => generation' = generation
          /\ (last'.op = "reset") =>
                 /\ generation' = 0
                 /\ board' = Board_new(0, 0)
                 /\ get_occupied(board') = {}
          /\ (generation' /= generation) => last'.op \in {"one_iteration", "reset"}]_vars

GenerationCountsStepsWitness ==
    /\ last.op = "one_iteration"
    /\ nops = 4
    /\ generation = 1
    /\ get_occupied(board) /= {}

\* C15: pressing R while the engine's board is infinite opens an info window
\* (and no confirmation prompt) and leaves the board and the generation
\* counter as they were; and the board is replaced by a random one only when
\* the user answers Ok to the prompt that R opened, which exists only for a
\* board that is not infinite.
RandomizeRefusedAndReported ==
    [][/\ (event' = "R" /\ infinite) =>
             /\ stack' = <<InfoWindow>> \o stack
             /\ board' = board
             /\ generation' = generation
       /\ (board' /= board) =>
             /\ event' = "Ok"
             /\ stack /= <<>>
             /\ stack[1].kind = "confirm"
             /\ (stack[1].callback = "random") => ~infinite /\ board' \in RandomBoards
       /\ (\E n \in 1..Len(stack') : stack'[n] = ConfirmationWindow("random")) => ~infinite]_vars

\* C18: Board::new(width, height) allocates exactly max(height, 4) rows, the
\* rows 0..max(height, 4) - 1, each with exactly the columns
\* 0..max(width, 4) - 1, no negative row or column, every cell Empty and the
\* occupied set empty; the 4x4 square at the origin is allocated and an
\* iteration (made on the boards of up to MaxIterated cells) visits every
\* allocated cell once.
NewAllocatesExactly ==
    (last.op = "new") =>
        LET W == IF last.col >= 4 THEN last.col ELSE 4
            H == IF last.row >= 4 THEN last.row ELSE 4
            it == BoardIterate(board)
        IN  /\ len_pos(board.cells) = H
            /\ len_neg(board.cells) = 0
            /\ \A r \in 0..(H - 1) :
                  /\ len_pos(Index(board.cells, r)) = W
                  /\ len_neg(Index(board.cells, r)) = 0
                  /\ \A c \in 0..(W - 1) : Index(Index(board.cells, r), c) = Empty
            /\ get_occupied(board) = {}
            /\ AllocatedCoords(board) = {Coord(c, r) : c \in 0..(W - 1), r \in 0..(H - 1)}
            /\ \A c \in 0..3, r \in 0..3 : Coord(c, r) \in AllocatedCoords(board)
            /\ (W * H <= MaxIterated) =>
                  /\ ~it.panicked
                  /\ Len(it.items) = W * H
                  /\ {[col |-> i.col, row |-> i.row] :
                         i \in {it.items[k] : k \in 1..Len(it.items)}} = AllocatedCoords(board)

NewAllocatesExactlyWitness ==
    /\ last = [op |-> "new", col |-> 6, row |-> 2]
    /\ len_pos(board.cells) = 4
    /\ len_pos(Index(board.cells, 3)) = 6

\* The order of the neighbours, as <<dcol, drow>>, from due west.
VicinityOrder == << <<-1, 0>>, <<-1, -1>>, <<0, -1>>, <<1, -1>>,
                    <<1, 0>>, <<1, 1>>, <<0, 1>>, <<-1, 1>> >>

\* C19: get_vicinity(col, row) returns 8 values, the k-th being is_alive at
\* the k-th offset of VicinityOrder from (col, row) (TRUE iff that coordinate
\* is in the occupied set); the offsets are the 8 Moore neighbours and not
\* (0, 0); and the call indexes no cell outside the allocation.
VicinityInOrder ==
    /\ {VicinityOrder[k] : k \in 1..8}
          = {<<dc, dr>> : dc \in {-1, 0, 1}, dr \in {-1, 0, 1}} \ {<<0, 0>>}
    /\ \A c \in Probe \cup DeepCoords :
          LET vicinity == get_vicinity(board, c.col, c.row) IN
          /\ Len(vicinity) = 8
          /\ \A k \in 1..8 :
                LET n == Coord(c.col + VicinityOrder[k][1], c.row + VicinityOrder[k][2])
                IN  /\ vicinity[k] = is_alive(board, n.col, n.row)
                    /\ vicinity[k] = (n \in get_occupied(board))
          /\ ~GetVicinityPanics(board, c.col, c.row)

VicinityInOrderWitness ==
    /\ get_occupied(board) = {Coord(-1, -4), Coord(0, -3)}
    /\ len_neg(board.cells) = 4
    /\ get_vicinity(board, 0, -4) = <<TRUE, FALSE, FALSE, FALSE, FALSE, FALSE, TRUE, FALSE>>

\* C20: a born_at or kill_at call (each makes the ensure_cell call, which
\* grows the SymVecs by push_front / push_back) never decreases len_pos or
\* len_neg of the row sequence or of a row already allocated; and a kill_at
\* of an allocated cell leaves every extent as it was, also when it leaves
\* its row with no Occupied cell.
AllocationOnlyGrows ==
    [][LET old == board.cells
           new == board'.cells
       IN  /\ len_pos(new) >= len_pos(old)
           /\ len_neg(new) >= len_neg(old)
           /\ \A r \in Allocated(old) :
                 /\ len_pos(Index(new, r)) >= len_pos(Index(old, r))
                 /\ len_neg(Index(new, r)) >= len_neg(Index(old, r))
           /\ (/\ last'.op = "kill_at"
               /\ ~IndexPanics(old, last'.row)
               /\ ~IndexPanics(Index(old, last'.row), last'.col)) =>
                 /\ Allocated(new) = Allocated(old)
                 /\ \A r \in Allocated(old) :
                       Allocated(Index(new, r)) = Allocated(Index(old, r))]_vars

AllocationOnlyGrowsWitness ==
    /\ last = [op |-> "kill_at", col |-> 5, row |-> -2]
    /\ Coord(5, -2) \in born
    /\ get_occupied(board) = {}
    /\ Allocated(board.cells) = (-2)..3
    /\ Allocated(Index(board.cells, -2)) = 0..5
    /\ \A c \in 0..5 : Index(Index(board.cells, -2), c) = Empty

(***************************************************************************)
(* Claims about the event loop of src/main.rs, under SpecGame.             *)
(***************************************************************************)
\* The boards born_or_kill can make of b at the cursor positions.
BornOrKillBoards(b) ==
    {born_or_kill(b, k, x, y) : k \in BOOLEAN, x \in CursorXs, y \in CursorYs}

\* C21: the generation counter changes only while a Render event is handled
\* with cur_state = Working, and then by one step of the engine; in Paused,
\* Draw and Help no event changes the counter, and the board changes only to
\* what born_or_kill makes of it (a cursor move while drawing, a release).
StepOnlyWhenWorking ==
    [][/\ (generation' /= generation) =>
             /\ event' = "Render"
             /\ cur_state = "Working"
             /\ generation' = generation + 1
             /\ board' = one_iteration(board)
       /\ (cur_state \in {"Paused", "Draw", "Help"}) =>
             /\ generation' = generation
             /\ (board' /= board) =>
                   /\ event' \in {"Move", "Release"}
                   /\ board' \in BornOrKillBoards(board)]_vars

StepOnlyWhenWorkingWitness ==
    /\ event = "Render"
    /\ prev_state = "Working"
    /\ cur_state = "Working"
    /\ generation = 1
    /\ written /= {} \/ nops > 0

\* C22 as stated: from every state of main.rs and of ui/src/lib.rs two
\* consecutive presses of P return to the state they started from.
PressPTwiceReturns ==
    /\ Game_press_P(Game_press_P(cur_state)) = cur_state
    /\ \A s \in States : KeyState(KeyState(s, "P"), "P") = s

\* C22, amended: P sets Paused in Working and Working in every other state,
\* so two presses return to the start from Working and from Paused only;
\* from Draw and Help (main.rs) and from StepByStep (ui/src/lib.rs) the
\* first press sets Working and the second Paused.
PressPToggles ==
    [][(event' = "P") =>
          /\ cur_state' = IF cur_state = "Working" THEN "Paused" ELSE "Working"
          /\ \A s \in GameStates :
                Game_press_P(Game_press_P(s)) =
                    IF s \in {"Working", "Paused"} THEN s ELSE "Paused"
          /\ \A s \in States :
                /\ KeyState(s, "P") = IF s = "Working" THEN "Paused" ELSE "Working"
                /\ KeyState(KeyState(s, "P"), "P") =
                      IF s \in {"Working", "Paused"} THEN s ELSE "Paused"]_vars

PressPTogglesWitness ==
    /\ event = "P"
    /\ prev_state = "Draw"
    /\ cur_state = "Working"

\* C25: every release of the left button sets cur_state to Paused, also a
\* release that no cursor move came before.
ReleaseAlwaysPauses ==
    [][(event' = "Release") => cur_state' = "Paused"]_vars

(***************************************************************************)
(* Claims about the keys and the window stack of ui/src/lib.rs, under      *)
(* SpecUI.                                                                 *)
(***************************************************************************)
\* C23: a press of C sets cur_state to Paused and resets nothing itself; the
\* board and the generation counter change only when Ok answers the prompt
\* at the front of the stack, and Ok to the prompt that C opened makes the
\* engine what reset makes it (an empty board, generation 0); Cancel, any
\* other event, and a C press whose prompt was discarded leave both as they
\* were.
ClearOnlyAfterOk ==
    [][/\ (event' = "C") =>
             /\ cur_state' = "Paused"
             /\ board' = board
             /\ generation' = generation
             /\ stack' \in {stack, <<ConfirmationWindow("reset")>> \o stack}
       /\ (board' /= board \/ generation' /= generation) =>
             /\ event' = "Ok"
             /\ stack /= <<>>
             /\ stack[1].kind = "confirm"
       /\ (event' = "Ok" /\ stack /= <<>> /\ stack[1] = ConfirmationWindow("reset")) =>
             /\ board' = Board_new(0, 0)
             /\ get_occupied(board') = {}
             /\ generation' = 0
             /\ stack' = Tail(stack)
       /\ (event' = "Cancel") =>
             /\ board' = board
             /\ generation' = generation]_vars

ClearOnlyAfterOkWitness ==
    /\ event = "C"
    /\ cur_state = "Paused"
    /\ stack = <<ConfirmationWindow("reset")>> \o UI_new.stack
    /\ get_occupied(board) /= {}
    /\ generation = MaxGen

\* The windows the keys make.
NewWindows == {ConfirmationWindow("reset"), ConfirmationWindow("random"), InfoWindow}

\* C27: push_front puts the window at index 0 iff the stack is not empty and
\* the window at index 0 is not modal, and otherwise leaves the stack as it
\* was; so a key press (C, R) made while a modal window is at the front puts
\* no window above it, and a modal window is never below another window.
PushFrontRespectsModal ==
    [][/\ \A w \in NewWindows :
             /\ UI_push_front(stack, w) =
                   IF stack /= <<>> /\ ~stack[1].modal THEN <<w>> \o stack ELSE stack
             /\ UI_push_front(<<>>, w) = <<>>
       /\ (event' \in {"C", "R"} /\ stack /= <<>> /\ stack[1].modal) => stack' = stack
       /\ (event' = "C" /\ stack /= <<>> /\ ~stack[1].modal) =>
             stack' = <<ConfirmationWindow("reset")>> \o stack
       /\ (Len(stack') > Len(stack)) =>
             /\ event' \in {"C", "R"}
             /\ ~stack[1].modal
             /\ stack'[1] \in NewWindows
             /\ Tail(stack') = stack
       /\ \A n \in 2..Len(stack') : ~stack'[n].modal]_vars

PushFrontRespectsModalWitness ==
    /\ event = "R"
    /\ cur_state = "Paused"
    /\ ~infinite
    /\ stack = <<ConfirmationWindow("reset")>> \o UI_new.stack

(***************************************************************************)
(* Claims about UI::manage_windows, under SpecWindows.                     *)
(***************************************************************************)
\* The index of the first window that returns Stop, or one past the stack.
RECURSIVE FirstStop(_, _)
FirstStop(st, n) ==
    IF n > Len(st) \/ st[n].post = "Stop" THEN n ELSE FirstStop(st, n + 1)

\* The windows that stay: those that did not return Pop for the event, the
\* ones after a Stop (which never got it) included, in their order.
RECURSIVE KeptWindows(_, _, _)
KeptWindows(st, n, stop) ==
    IF n > Len(st) THEN <<>>
    ELSE IF n < stop /\ st[n].post = "Pop" THEN KeptWindows(st, n + 1, stop)
    ELSE <<st[n].id>> \o KeptWindows(st, n + 1, stop)

\* C24: after manage_windows dispatches one event the stack holds exactly
\* the windows that did not return Pop for it, in their original order, also
\* when two or more windows return Pop; the windows after one that returned
\* Stop do not get the event, so they stay whatever they would return.
ManageWindowsRemovesPops ==
    [][(event' = "Other") =>
          /\ ~panicked'
          /\ WindowIds(stack') = KeptWindows(stack, 1, FirstStop(stack, 1))]_vars

(***************************************************************************)
(* The counts of missing elements against need_extend, under SpecSymVec.   *)
(***************************************************************************)
\* for _ in 0..n { sv.push_back(e) }
RECURSIVE push_back_n(_, _, _)
push_back_n(sv, e, n) ==
    IF n = 0 THEN sv ELSE push_back_n(push_back(sv, e), e, n - 1)

\* C26: for every SymVec state and index i, need_extend_pos_cnt(i) is None
\* exactly when need_extend_pos(i) is false and need_extend_neg_cnt(i) is None
\* exactly when need_extend_neg(i) is false; a count Some(k) is the least
\* number of pushes on its side after which index i is available.
CntAgreesWithNeedExtend ==
    \A i \in Indices :
        LET p == need_extend_pos_cnt(v, i)
            n == need_extend_neg_cnt(v, i)
        IN /\ (p = None) <=> ~need_extend_pos(v, i)
           /\ (n = None) <=> ~need_extend_neg(v, i)
           /\ p.some =>
                 /\ is_available(push_front_n(v, 1, p.val), i)
                 /\ \A j \in 0..(p.val - 1) : ~is_available(push_front_n(v, 1, j), i)
           /\ n.some =>
                 /\ is_available(push_back_n(v, 1, n.val), i)
                 /\ \A j \in 0..(n.val - 1) : ~is_available(push_back_n(v, 1, j), i)

====
